---- MODULE Spec2Model ----
(***************************************************************************)
(* Model of the streaming chat hook useChat (src/unnamed/part_013) and of  *)
(* the error sanitiser getFriendlyErrorMessage it calls.                   *)
(*                                                                         *)
(* Strings are sequences of tokens (words, whitespace tokens, markup       *)
(* tokens), so that concatenation, trimming and pattern matching are       *)
(* computed and not assumed.  The transport is the environment: it decides *)
(* when a request resolves, which line each chunk carries, when the stream *)
(* ends or fails, and when a signalled abort finally surfaces.             *)
(***************************************************************************)
EXTENDS Integers, Sequences, FiniteSets, TLC

VARIABLES messages, chunks, metrics, isLoading, error,
          abortRef, sessionIdRef, startTimeRef, retrievalMsRef,
          streams, timers, nextId, now, steps, loaded, lastOp, decoder, mapper,
          activeSessionId, sessions

vars == <<messages, chunks, metrics, isLoading, error,
          abortRef, sessionIdRef, startTimeRef, retrievalMsRef,
          streams, timers, nextId, now, steps, loaded, lastOp, decoder, mapper,
          activeSessionId, sessions>>

\* ---------------------------------------------------------------- bounds
MaxFrames == 2
MaxTimers == 1
MaxNow == 60
MaxSteps == 6
MaxText == 4
MaxSources == 2

\* ------------------------------------------------------------- constants
Null == "null"
\* metrics is MetricsData | null: <<>> for null, <<m>> for a value m
NoMetrics == <<>>
Metrics(retrievalTimeMs, synthesisTimeMs) ==
  <<[retrievalTimeMs |-> retrievalTimeMs, synthesisTimeMs |-> synthesisTimeMs]>>
NoStream == 0
ThrottleMs == 50
TickMs == ThrottleMs + 10
SessionIds == {"A", "B"}

\* ------------------------------------------------------- string helpers
Whitespace == {"SP", "NL"}

IsBlank(str) == \A i \in 1..Len(str) : str[i] \in Whitespace

RECURSIVE TrimStart(_)
TrimStart(str) ==
  IF str # <<>> /\ Head(str) \in Whitespace THEN TrimStart(Tail(str)) ELSE str

RECURSIVE TrimEnd(_)
TrimEnd(str) ==
  IF str # <<>> /\ str[Len(str)] \in Whitespace
  THEN TrimEnd(SubSeq(str, 1, Len(str) - 1))
  ELSE str

Trim(str) == TrimEnd(TrimStart(str))

Includes(str, tok) == \E i \in 1..Len(str) : str[i] = tok

Min(S) == CHOOSE x \in S : \A y \in S : x <= y
Max(S) == CHOOSE x \in S : \A y \in S : x >= y

IndexOf(str, tok) ==
  IF Includes(str, tok) THEN Min({i \in 1..Len(str) : str[i] = tok}) ELSE 0

\* ------------------------------------------------- error text handling
\* Substrings of the lower-cased word that getFriendlyErrorMessage looks for.
Keywords(word) ==
  CASE word = "Failed to fetch" -> {"fetch"}
    [] word = "Request timed out" -> {"timed out"}
    [] word = "network error" -> {"network"}
    [] word = "Rate limit reached" -> {"rate limit"}
    [] word = "Internal Server Error" -> {"internal server"}
    [] word = "Service unavailable" -> {"unavailable"}
    [] OTHER -> {}

LowerIncludes(message, kws) ==
  \E i \in 1..Len(message) : Keywords(message[i]) \cap kws # {}

getFriendlyErrorMessage(message) ==
  IF LowerIncludes(message, {"network", "fetch", "econnrefused"})
    THEN "Unable to connect to the server. Please check your internet connection and try again."
  ELSE IF LowerIncludes(message, {"timeout", "timed out"})
    THEN "The request took too long. Please try again."
  ELSE IF LowerIncludes(message, {"rate limit", "429"})
    THEN "Too many requests. Please wait a moment and try again."
  ELSE IF LowerIncludes(message, {"401", "unauthorized"})
    THEN "Authentication failed. Please refresh the page and try again."
  ELSE IF LowerIncludes(message, {"500", "internal server"})
    THEN "Something went wrong on our end. Please try again later."
  ELSE IF LowerIncludes(message, {"503", "unavailable"})
    THEN "The service is temporarily unavailable. Please try again later."
  ELSE "Something went wrong. Please try again."

\* The marker test with a marker the payload does not carry.
isMaskedErrorWrongMarker(data) == Includes(data, "Error:")

\* data.includes('Error:**')
isMaskedError(data) == Includes(data, "Error:**")

\* A token whose text ends in two asterisks, which the \*\* of the pattern
\* can match.
EndsInStars(tok) == tok \in {"**", "Error:**"}

NoNewline(str, i, j) == \A k \in i..j : str[k] # "NL"

\* Ends q of a match of  .*\*\*.*Error:\*\*  that starts at i: everything
\* from i to q lies on one line and a ** precedes the marker.
MarkerEnds(str, i) ==
  {q \in i..Len(str) :
     /\ str[q] = "Error:**"
     /\ NoNewline(str, i, q)
     /\ \E p \in i..(q - 1) : EndsInStars(str[p])}

RECURSIVE SkipWhitespace(_, _)
SkipWhitespace(str, e) ==
  IF e < Len(str) /\ str[e + 1] \in Whitespace THEN SkipWhitespace(str, e + 1) ELSE e

\* data.replace(/.*\*\*.*Error:\*\*\s*/, '').trim(): the leftmost match,
\* greedy, is removed; without a match the text is only trimmed.
cleanError(data) ==
  LET starts == {i \in 1..Len(data) : MarkerEnds(data, i) # {}} IN
  IF starts = {} THEN Trim(data)
  ELSE LET i0 == Min(starts)
           q  == Max(MarkerEnds(data, i0))
           e  == SkipWhitespace(data, q)
       IN Trim(SubSeq(data, 1, i0 - 1) \o SubSeq(data, e + 1, Len(data)))

\* ----------------------------------------------------------- citations
\* A backend source: file_path as its segments between / or \, score in
\* thousandths (NoScore for null), text.
NoScore == -1

Extension(segment) ==
  CASE segment \in {"b.pdf"} -> ".pdf"
    [] segment \in {"c.docx"} -> ".docx"
    [] segment \in {"d.doc"} -> ".doc"
    [] OTHER -> ""

\* A classification that knows .docx only.
getFileTypeDocxOnly(path) ==
  LET ext == IF path = <<>> THEN "" ELSE Extension(path[Len(path)]) IN
  IF ext = ".pdf" THEN "pdf"
  ELSE IF ext = ".docx" THEN "docx"
  ELSE "web"

getFileType(path) ==
  LET ext == IF path = <<>> THEN "" ELSE Extension(path[Len(path)]) IN
  IF ext = ".pdf" THEN "pdf"
  ELSE IF ext = ".docx" \/ ext = ".doc" THEN "docx"
  ELSE "web"

\* Math.round(score * 100) for a score given in thousandths
RoundPercent(score) == (score + 5) \div 10

mapSources(sources) ==
  [i \in 1..Len(sources) |->
     [title     |-> IF sources[i].file_path = <<>>
                       \/ sources[i].file_path[Len(sources[i].file_path)] = ""
                    THEN "Unknown"
                    ELSE sources[i].file_path[Len(sources[i].file_path)],
      type      |-> getFileType(sources[i].file_path),
      snippet   |-> sources[i].text,
      relevance |-> IF sources[i].score = NoScore \/ sources[i].score = 0
                    THEN 0 ELSE RoundPercent(sources[i].score),
      sourceUrl |-> sources[i].file_path]]

\* ---------------------------------------------------------------- inputs
Contents == {<<"Q">>, <<"SP">>}

Sources1 == <<[rank |-> 1, score |-> 920, file_path |-> <<"a", "b.pdf">>, text |-> "x"]>>

\* Lines the transport can deliver: a content delta, a masked error, a
\* reasoning delta, a citations and retrieval-time frame.
ContentFrame == [type |-> "0", data |-> <<"Hello">>, reasoning |-> <<>>,
                 sources |-> <<>>, retrieval_time |-> 0]
ErrorFrame == [type |-> "0",
               data |-> <<"NL", "NL", "**", "W", "Error:**", "SP", "Rate limit reached">>,
               reasoning |-> <<>>, sources |-> <<>>, retrieval_time |-> 0]
ReasoningFrame == [type |-> "2", data |-> <<>>, reasoning |-> <<"think">>,
                   sources |-> <<>>, retrieval_time |-> 0]
\* retrieval_time is in seconds; the model writes it in microseconds
DataFrame == [type |-> "2", data |-> <<>>, reasoning |-> <<>>,
              sources |-> Sources1, retrieval_time |-> 100400]
\* A second citation list, sent as a bare array, and an empty list
Sources2 == <<[rank |-> 1, score |-> 500, file_path |-> <<"c.docx">>, text |-> "y"],
              [rank |-> 2, score |-> NoScore, file_path |-> <<"d">>, text |-> "z"]>>
ArrayFrame == [type |-> "2", data |-> <<>>, reasoning |-> <<>>,
               sources |-> <<>>, retrieval_time |-> 0, items |-> Sources2]
EmptySourcesFrame == [type |-> "2", data |-> <<>>, reasoning |-> <<>>,
                      sources |-> <<>>, retrieval_time |-> 0]
Frames == {ContentFrame, ErrorFrame, ReasoningFrame, DataFrame}

\* JSON.stringify and JSON.parse of a string: the text between quotes
JSONstringify(str) == <<"\"">> \o str \o <<"\"">>
\* A parser that accepts a string without its closing quote.
JSONparseOkLenient(js) == Len(js) >= 1 /\ js[1] = "\""

JSONparseOk(js) == Len(js) >= 2 /\ js[1] = "\"" /\ js[Len(js)] = "\""
JSONparse(js) == SubSeq(js, 2, Len(js) - 1)

\* The JSON texts of the objects a type 2 line carries, each one token,
\* and the value JSON.parse gives for them.
JSONobjects == {"{reasoning}", "{retrieval_time,sources}", "{sources:[]}", "[sources]"}
JSONobject(tok) ==
  IF tok = "{reasoning}" THEN ReasoningFrame
  ELSE IF tok = "{retrieval_time,sources}" THEN DataFrame
  ELSE IF tok = "[sources]" THEN ArrayFrame
  ELSE EmptySourcesFrame

\* Array.isArray(data) ? data : data.sources || []
SourcesOf(data) == IF "items" \in DOMAIN data THEN data.items ELSE data.sources

\* The protocol lines of those frames, a line without a colon, and a line
\* whose payload is cut before its closing quote.
ContentLine == <<"0", ":">> \o JSONstringify(ContentFrame.data)
ErrorLine == <<"0", ":">> \o JSONstringify(ErrorFrame.data)
ReasoningLine == <<"2", ":", "{reasoning}">>
DataLine == <<"2", ":", "{retrieval_time,sources}">>
ArrayLine == <<"2", ":", "[sources]">>
EmptySourcesLine == <<"2", ":", "{sources:[]}">>
NoColonLine == <<"data">>
BadJsonLine == <<"0", ":", "\"", "Hello">>
\* Lines of an unexpected shape: a type 2 and a type 0 line whose payload
\* is the JSON value null, and a line with a type tag that is not known.
NullLine == <<"2", ":", "null">>
NullTextLine == <<"0", ":", "null">>
UnknownTypeLine == <<"3", ":">> \o JSONstringify(ContentFrame.data)
Lines == {ContentLine, ErrorLine, ReasoningLine, DataLine, ArrayLine, EmptySourcesLine,
          NoColonLine, BadJsonLine, NullLine, NullTextLine, UnknownTypeLine}

\* Failures of the request itself: fetch rejects, the response is not ok,
\* the response has no body.
FetchFailures == {<<"Failed to fetch">>,
                  <<"Server error: ", "Internal Server Error">>,
                  <<"No response body">>}

\* A conversation saved earlier, as loadState receives it from the page.
SavedMessages == <<[id |-> 101, role |-> "user", content |-> <<"Test">>, data |-> <<>>],
                   [id |-> 102, role |-> "assistant", content |-> <<"Answer">>, data |-> <<>>]>>
SavedChunks == <<[title |-> "Doc", type |-> "pdf", snippet |-> "text",
                  relevance |-> 80, sourceUrl |-> <<"Doc">>]>>
SavedMetrics == Metrics(100, 200)

\* What the page can pass to loadState: an empty session, a saved one, or
\* the active session as auto-saved from the current state.
Loadable == <<<<<<>>, <<>>, NoMetrics>>,
              <<SavedMessages, SavedChunks, SavedMetrics>>,
              <<messages, chunks, metrics>>>>

\* Response texts for the line decoder: a letter, a blank, a line break.
Alphabet == {"a", "SP", "NL"}
Texts == UNION {[1..n -> Alphabet] : n \in 0..MaxText}

\* Source records for the mapping on its own: paths a/b.pdf, c.docx,
\* a\d.doc, b.pdf/d, e.PDF, a/ and the empty path; scores null, 0, 0.004,
\* 0.005, 0.5, 0.920.  Retrieval times in microseconds.
Paths == {<<"a", "b.pdf">>, <<"c.docx">>, <<"a", "d.doc">>, <<"b.pdf", "d">>,
          <<"e.PDF">>, <<"a", "">>, <<"">>}
Scores == {NoScore, 0, 4, 5, 500, 920}
SourceRecords == [rank : {1}, score : Scores, file_path : Paths, text : {"x"}]
SourceLists == UNION {[1..n -> SourceRecords] : n \in 0..MaxSources}
RetrievalTimes == {400, 500, 100400, 2000000}

\* ----------------------------------------------------------------- state
\* The stored sessions, by id: none, or each with the messages, citations
\* and metrics saved last.
NoSessions == [id \in {} |-> <<>>]

\* The mapping on its own: a citation list and a retrieval time as they
\* arrive, the citations and milliseconds made of them.
Mapper(sources, retrieval_time, pc) ==
  [sources |-> sources, retrieval_time |-> retrieval_time,
   chunks |-> <<>>, ms |-> 0, pc |-> pc]

\* The read loop on its own: the text still to arrive, the carried partial
\* line, and the lines handed to processLine so far.
Decoder(text, pc) ==
  [text |-> text, rest |-> text, buffer |-> <<>>, lines |-> <<>>, pc |-> pc]

Op(op, s, ev, content) == [op |-> op, s |-> s, ev |-> ev, content |-> content]

Init ==
  /\ messages = <<>>
  /\ chunks = <<>>
  /\ metrics = NoMetrics
  /\ isLoading = FALSE
  /\ error = Null
  /\ abortRef = NoStream
  /\ sessionIdRef = Null
  /\ startTimeRef = 0
  /\ retrievalMsRef = 0
  /\ streams = <<>>
  /\ timers = <<>>
  /\ nextId = 1
  /\ now = 0
  /\ steps = 0
  /\ loaded = <<>>
  /\ lastOp = Op("init", NoStream, "", <<>>)
  /\ decoder = Decoder(<<>>, "idle")
  /\ mapper = Mapper(<<>>, 0, "idle")
  /\ activeSessionId = Null
  /\ sessions = NoSessions

\* A controller that is never signalled.
AbortNothing(strs) == strs

\* abortRef.current?.abort()
Abort(strs) ==
  IF abortRef = NoStream THEN strs
  ELSE [strs EXCEPT ![abortRef].aborted = TRUE]

InFlight(s) == streams[s].pc # "done"

\* sessionIdRef.current = sessionId: every stream in flight that is bound to
\* another id is from now on known to have been unbound at some time.
Unbind(strs, sessionId) ==
  [i \in 1..Len(strs) |->
     IF strs[i].pc # "done" /\ strs[i].boundSessionId # sessionId
     THEN [strs[i] EXCEPT !.stayedBound = FALSE]
     ELSE strs[i]]

\* -------------------------------------------------------------- loadState
\* loadState without setError(null).
loadStateKeepsError(loadedMessages, loadedChunks, loadedMetrics) ==
  /\ streams' = Abort(streams)
  /\ isLoading' = FALSE
  /\ messages' = loadedMessages
  /\ chunks' = loadedChunks
  /\ metrics' = loadedMetrics
  /\ lastOp' = Op("loadState", NoStream, "", <<>>)
  /\ UNCHANGED <<error, abortRef, sessionIdRef, startTimeRef, retrievalMsRef, timers, nextId, now>>

loadState(loadedMessages, loadedChunks, loadedMetrics) ==
  /\ streams' = Abort(streams)
  /\ isLoading' = FALSE
  /\ messages' = loadedMessages
  /\ chunks' = loadedChunks
  /\ metrics' = loadedMetrics
  /\ error' = Null
  /\ lastOp' = Op("loadState", NoStream, "", <<>>)
  /\ UNCHANGED <<abortRef, sessionIdRef, startTimeRef, retrievalMsRef, timers, nextId, now>>

\* ------------------------------------------------------------------ reset
\* reset without abortRef.current?.abort().
resetWithoutAbort ==
  /\ sessionIdRef' = Null
  /\ messages' = <<>>
  /\ chunks' = <<>>
  /\ metrics' = NoMetrics
  /\ error' = Null
  /\ isLoading' = FALSE
  /\ lastOp' = Op("reset", NoStream, "", <<>>)
  /\ UNCHANGED <<streams, abortRef, startTimeRef, retrievalMsRef, timers, nextId, now>>

reset ==
  /\ streams' = Unbind(Abort(streams), Null)
  /\ sessionIdRef' = Null
  /\ messages' = <<>>
  /\ chunks' = <<>>
  /\ metrics' = NoMetrics
  /\ error' = Null
  /\ isLoading' = FALSE
  /\ lastOp' = Op("reset", NoStream, "", <<>>)
  /\ UNCHANGED <<abortRef, startTimeRef, retrievalMsRef, timers, nextId, now>>

\* ------------------------------------------------------------------- send
\* The guard without the isLoading test.
sendGuardIgnoresLoading(content, closureLoading) == ~IsBlank(content)

\* The guard reads the isLoading of the render that created this send.
sendGuard(content, closureLoading) == ~(IsBlank(content) \/ closureLoading)

\* setMessages([userMsg, assistantMsg]): the earlier log is dropped.
appendPairDropsLog(prev, userMsg, assistantMsg) == <<userMsg, assistantMsg>>

\* setMessages((prev) => [...prev, userMsg, assistantMsg])
appendPair(prev, userMsg, assistantMsg) == prev \o <<userMsg, assistantMsg>>

\* ({ role, content }) => ({ role, content }) over the request messages
RoleContent(msgs) ==
  [i \in 1..Len(msgs) |-> [role |-> msgs[i].role, content |-> msgs[i].content]]

\* body.messages of the request: [...messages, userMsg], where messages is
\* the log of the render whose send is running
requestBody(closureMessages, userMsg) == RoleContent(Append(closureMessages, userMsg))

\* The synchronous part of send, up to the await of fetch.  closureMessages
\* is the value of messages in the render that created this send.
sendBody(content, sessionId, op, closureMessages) ==
  LET s == Len(streams) + 1
      userMsg == [id |-> nextId, role |-> "user", content |-> content, data |-> <<>>]
      assistantMsg == [id |-> nextId + 1, role |-> "assistant", content |-> <<>>, data |-> <<>>]
  IN
  /\ streams' = Append(Unbind(Abort(streams), sessionId),
                       [boundSessionId |-> sessionId,
                        assistantId |-> nextId + 1,
                        aborted |-> FALSE,
                        pc |-> "fetch",
                        nread |-> 0,
                        tokenBuffer |-> <<>>,
                        lastUpdateTime |-> 0,
                        startTime |-> now,
                        received |-> <<>>,
                        reasoned |-> <<>>,
                        reported |-> 0,
                        stayedBound |-> TRUE,
                        body |-> requestBody(closureMessages, userMsg)])
  /\ abortRef' = s
  /\ sessionIdRef' = sessionId
  /\ error' = Null
  /\ chunks' = <<>>
  /\ metrics' = NoMetrics
  /\ isLoading' = TRUE
  /\ startTimeRef' = now
  /\ retrievalMsRef' = 0
  /\ messages' = appendPair(messages, userMsg, assistantMsg)
  /\ nextId' = nextId + 2
  /\ lastOp' = Op(op, s, "", content)
  /\ UNCHANGED now

send(content, sessionId) ==
  IF sendGuard(content, isLoading)
  THEN /\ sendBody(content, sessionId, "send", messages)
       /\ UNCHANGED timers
  ELSE /\ lastOp' = IF IsBlank(content) THEN lastOp ELSE Op("send", NoStream, "", content)
       /\ UNCHANGED <<messages, chunks, metrics, isLoading, error, abortRef, sessionIdRef,
                      startTimeRef, retrievalMsRef, streams, timers, nextId, now>>

\* ----------------------------------------------------------------- reload
UserIndexes == {i \in 1..Len(messages) : messages[i].role = "user"}

reload(sessionId) ==
  IF UserIndexes = {}
  THEN UNCHANGED <<messages, chunks, metrics, isLoading, error, abortRef, sessionIdRef,
                  startTimeRef, retrievalMsRef, streams, timers, nextId, now, lastOp>>
  ELSE LET userIdx == Max(UserIndexes) IN
       /\ Len(timers) < MaxTimers
       /\ messages' = SubSeq(messages, 1, userIdx - 1)
       /\ timers' = Append(timers, [content |-> messages[userIdx].content,
                                    sessionId |-> sessionId,
                                    isLoading |-> isLoading,
                                    messages |-> messages,
                                    prefix |-> SubSeq(messages, 1, userIdx - 1)])
       /\ lastOp' = Op("reload", NoStream, "", messages[userIdx].content)
       /\ UNCHANGED <<chunks, metrics, isLoading, error, abortRef, sessionIdRef,
                      startTimeRef, retrievalMsRef, streams, nextId, now>>

\* The callback of setTimeout(() => send(lastUserContent, sessionId), 0):
\* the send of the render in which reload was called, with the isLoading
\* and the messages of that render.
reloadTimer ==
  /\ timers # <<>>
  /\ LET t == Head(timers) IN
     IF sendGuard(t.content, t.isLoading)
     THEN /\ sendBody(t.content, t.sessionId, "timer", t.messages)
     ELSE /\ lastOp' = Op("timer", NoStream, "", t.content)
          /\ UNCHANGED <<messages, chunks, metrics, isLoading, error, abortRef, sessionIdRef,
                         startTimeRef, retrievalMsRef, streams, nextId, now>>
  /\ timers' = Tail(timers)


\* ------------------------------------------------------- stream events
\* isBound without the comparison: every stream may write.
isBoundAlways(s) == TRUE

\* Only update if still on the same session
isBound(s) == sessionIdRef = streams[s].boundSessionId


\* chunk.split('__REASONING__')
RECURSIVE Split(_, _)
Split(str, sep) ==
  LET i == IndexOf(str, sep) IN
  IF i = 0 THEN <<str>>
  ELSE <<SubSeq(str, 1, i - 1)>> \o Split(SubSeq(str, i + 1, Len(str)), sep)

\* The content and the reasoning that one flushed buffer carries.
RECURSIVE contentUpdate(_)
contentUpdate(parts) ==
  IF parts = <<>> THEN <<>>
  ELSE LET p == Head(parts)
           endIdx == IndexOf(p, "__END__")
       IN (IF endIdx # 0 THEN SubSeq(p, endIdx + 1, Len(p)) ELSE <<>>)
          \o contentUpdate(Tail(parts))

\* The reasoning taken as the JSON text, quotes included.
RECURSIVE reasoningUpdateUnparsed(_)
reasoningUpdateUnparsed(parts) ==
  IF parts = <<>> THEN <<>>
  ELSE LET p == Head(parts)
           endIdx == IndexOf(p, "__END__")
       IN (IF endIdx # 0 THEN SubSeq(p, 1, endIdx - 1) ELSE <<>>)
          \o reasoningUpdateUnparsed(Tail(parts))

RECURSIVE reasoningUpdate(_)
reasoningUpdate(parts) ==
  IF parts = <<>> THEN <<>>
  ELSE LET p == Head(parts)
           endIdx == IndexOf(p, "__END__")
           jsonStr == SubSeq(p, 1, endIdx - 1)
       IN (IF endIdx # 0 /\ JSONparseOk(jsonStr) THEN JSONparse(jsonStr) ELSE <<>>)
          \o reasoningUpdate(Tail(parts))

\* An updater that overwrites the content with the flushed text.
applyChunkOverwrites(m, chunk) ==
  [m EXCEPT !.content = Head(Split(chunk, "__REASONING__"))]

\* The setMessages updater of flushTokens, applied to one message.
applyChunk(m, chunk) ==
  LET parts == Split(chunk, "__REASONING__")
      cUpd == Head(parts) \o contentUpdate(Tail(parts))
      rUpd == reasoningUpdate(Tail(parts))
      newData == IF rUpd = <<>> THEN m.data
                 ELSE IF m.data # <<>> /\ m.data[Len(m.data)] # <<>>
                 THEN [m.data EXCEPT ![Len(m.data)] = @ \o rUpd]
                 ELSE Append(m.data, rUpd)
  IN [m EXCEPT !.content = @ \o cUpd, !.data = newData]

shouldFlush(s, force) == force \/ now - streams[s].lastUpdateTime > ThrottleMs

\* A flush that writes to every assistant message of the log.
flushTokensAnyAssistant(s, force, buffer) ==
  IF shouldFlush(s, force) /\ buffer # <<>> /\ isBound(s)
  THEN [i \in 1..Len(messages) |->
          IF messages[i].role # "assistant" THEN messages[i]
          ELSE applyChunk(messages[i], buffer)]
  ELSE messages

\* flushTokens, given the buffer as it stands when it is called: the
\* messages it leaves.
flushTokens(s, force, buffer) ==
  IF shouldFlush(s, force) /\ buffer # <<>> /\ isBound(s)
  THEN [i \in 1..Len(messages) |->
          IF messages[i].id # streams[s].assistantId THEN messages[i]
          ELSE applyChunk(messages[i], buffer)]
  ELSE messages

\* The stream after flushTokens: buffer emptied and time stamped on a flush.
afterFlush(s, force, buffer) ==
  IF shouldFlush(s, force)
  THEN [streams[s] EXCEPT !.tokenBuffer = <<>>, !.lastUpdateTime = now]
  ELSE [streams[s] EXCEPT !.tokenBuffer = buffer]

\* A finally block that leaves isLoading alone.
finallyLoadingKept(s) == isLoading

\* finally { if (sessionIdRef.current === boundSessionId) setIsLoading(false) }
finallyLoading(s) == IF isBound(s) THEN FALSE ELSE isLoading

\* The catch without setError.
catchErrorSwallows(s, message) == error

\* catch (err): a failure that is not an AbortError
catchError(s, message) == IF isBound(s) THEN getFriendlyErrorMessage(message) ELSE error

\* await fetch(...) resolves with an ok response that has a body
fetchResolve(s) ==
  /\ streams[s].pc = "fetch"
  /\ streams' = [streams EXCEPT ![s].pc = "read", ![s].lastUpdateTime = now]
  /\ lastOp' = Op("stream", s, "fetchOk", <<>>)
  /\ UNCHANGED <<messages, chunks, metrics, isLoading, error, abortRef, sessionIdRef,
                 startTimeRef, retrievalMsRef, timers, nextId, now>>

\* fetch rejects, or the response is not ok, or it has no body
fetchFail(s, message) ==
  /\ streams[s].pc = "fetch"
  /\ streams' = [streams EXCEPT ![s].pc = "done"]
  /\ error' = catchError(s, message)
  /\ isLoading' = finallyLoading(s)
  /\ lastOp' = Op("stream", s, "fetchFail", message)
  /\ UNCHANGED <<messages, chunks, metrics, abortRef, sessionIdRef,
                 startTimeRef, retrievalMsRef, timers, nextId, now>>

\* The catch without the AbortError test: the cancellation is shown.
abortErrorSurfaces(s) ==
  /\ InFlight(s)
  /\ streams[s].aborted
  /\ streams' = [streams EXCEPT ![s].pc = "done"]
  /\ error' = catchError(s, <<"The operation was aborted">>)
  /\ isLoading' = finallyLoading(s)
  /\ lastOp' = Op("stream", s, "abort", <<>>)
  /\ UNCHANGED <<messages, chunks, metrics, abortRef, sessionIdRef,
                 startTimeRef, retrievalMsRef, timers, nextId, now>>

\* the awaited request or read rejects with an AbortError
abortError(s) ==
  /\ InFlight(s)
  /\ streams[s].aborted
  /\ streams' = [streams EXCEPT ![s].pc = "done"]
  /\ isLoading' = finallyLoading(s)
  /\ lastOp' = Op("stream", s, "abort", <<>>)
  /\ UNCHANGED <<messages, chunks, metrics, error, abortRef, sessionIdRef,
                 startTimeRef, retrievalMsRef, timers, nextId, now>>

\* reader.read() rejects with a failure that is not an abort
readFail(s, message) ==
  /\ streams[s].pc = "read"
  /\ streams' = [streams EXCEPT ![s].pc = "done"]
  /\ error' = catchError(s, message)
  /\ isLoading' = finallyLoading(s)
  /\ lastOp' = Op("stream", s, "readFail", message)
  /\ UNCHANGED <<messages, chunks, metrics, abortRef, sessionIdRef,
                 startTimeRef, retrievalMsRef, timers, nextId, now>>

\* processLine on a type 0 frame
processText(s, data) ==
  IF isMaskedError(data)
  THEN /\ streams' = [streams EXCEPT ![s].pc = "done", ![s].nread = @ + 1]
       /\ error' = catchError(s, cleanError(data))
       /\ isLoading' = finallyLoading(s)
       /\ lastOp' = Op("stream", s, "0", data)
       /\ UNCHANGED <<messages, chunks, metrics, retrievalMsRef>>
  ELSE LET buffer == streams[s].tokenBuffer \o data IN
       /\ messages' = flushTokens(s, FALSE, buffer)
       /\ streams' = [streams EXCEPT ![s] = [afterFlush(s, FALSE, buffer) EXCEPT
                                               !.nread = @ + 1, !.received = @ \o data]]
       /\ lastOp' = Op("stream", s, "0", data)
       /\ UNCHANGED <<chunks, metrics, isLoading, error, retrievalMsRef>>

\* Math.round(data.retrieval_time * 1000), on microseconds
RoundMs(us) == (us + 500) \div 1000

\* The retrieval time the server has reported to a stream so far.
Reported(before, frame) ==
  IF frame.reasoning = <<>> /\ frame.retrieval_time # 0
  THEN RoundMs(frame.retrieval_time) ELSE before

\* processLine on a type 2 frame
processData(s, frame) ==
  IF ~isBound(s)
  THEN /\ streams' = [streams EXCEPT ![s].nread = @ + 1,
                                     ![s].reported = Reported(@, frame),
                                     ![s].reasoned = @ \o frame.reasoning]
       /\ lastOp' = Op("stream", s, "2", frame.reasoning)
       /\ UNCHANGED <<messages, chunks, metrics, isLoading, error, retrievalMsRef>>
  ELSE IF frame.reasoning # <<>>
  THEN LET buffer == streams[s].tokenBuffer \o <<"__REASONING__">>
                       \o JSONstringify(frame.reasoning) \o <<"__END__">> IN
       /\ messages' = flushTokens(s, FALSE, buffer)
       /\ streams' = [streams EXCEPT ![s] = [afterFlush(s, FALSE, buffer) EXCEPT
                                               !.nread = @ + 1,
                                               !.reasoned = @ \o frame.reasoning]]
       /\ lastOp' = Op("stream", s, "2", frame.reasoning)
       /\ UNCHANGED <<chunks, metrics, isLoading, error, retrievalMsRef>>
  ELSE /\ streams' = [streams EXCEPT ![s].nread = @ + 1,
                                     ![s].reported = Reported(@, frame)]
       /\ IF frame.retrieval_time # 0
          THEN /\ retrievalMsRef' = RoundMs(frame.retrieval_time)
               /\ metrics' = Metrics(RoundMs(frame.retrieval_time), 0)
          ELSE UNCHANGED <<retrievalMsRef, metrics>>
       /\ chunks' = IF Len(SourcesOf(frame)) > 0 THEN mapSources(SourcesOf(frame)) ELSE chunks
       /\ lastOp' = Op("stream", s, "2", frame.reasoning)
       /\ UNCHANGED <<messages, isLoading, error>>

\* Lines read so far by the first k streams (their number is bounded).
RECURSIVE FramesRead(_)
FramesRead(k) == IF k = 0 THEN 0 ELSE streams[k].nread + FramesRead(k - 1)

\* processLine returns before it has changed anything
dropLine(s) ==
  /\ streams' = [streams EXCEPT ![s].nread = @ + 1]
  /\ lastOp' = Op("stream", s, "dropped", <<>>)
  /\ UNCHANGED <<messages, chunks, metrics, isLoading, error, retrievalMsRef>>

\* data.reasoning is read of a value that has no properties: the TypeError
\* leaves the read loop and is caught like any other failure
typeError(s) ==
  /\ streams' = [streams EXCEPT ![s].pc = "done", ![s].nread = @ + 1]
  /\ error' = catchError(s, <<"Cannot read properties of null (reading 'reasoning')">>)
  /\ isLoading' = finallyLoading(s)
  /\ lastOp' = Op("stream", s, "typeError",
                  <<"Cannot read properties of null (reading 'reasoning')">>)
  /\ UNCHANGED <<messages, chunks, metrics, retrievalMsRef>>

\* processLine: split on the first colon, parse the payload, dispatch
processLine(s, line) ==
  LET colonIdx == IndexOf(line, ":")
      type == SubSeq(line, 1, colonIdx - 1)
      payload == SubSeq(line, colonIdx + 1, Len(line))
      isString == JSONparseOk(payload)
      isObject == Len(payload) = 1 /\ payload[1] \in JSONobjects
      isNull == payload = <<"null">>
  IN
  IF colonIdx = 0 \/ ~(isString \/ isObject \/ isNull) THEN dropLine(s)
  ELSE IF type = <<"0">>
  THEN processText(s, IF isString THEN JSONparse(payload)
                      ELSE IF isNull THEN <<"null">> ELSE <<"[object Object]">>)
  ELSE IF type = <<"2">> /\ isBound(s) /\ isNull THEN typeError(s)
  ELSE IF type = <<"2">> /\ isObject THEN processData(s, JSONobject(payload[1]))
  ELSE dropLine(s)

\* reader.read() yields a chunk; the chunk carries one line
readChunk(s, line) ==
  /\ streams[s].pc = "read"
  /\ FramesRead(Len(streams)) < MaxFrames
  /\ processLine(s, line)
  /\ UNCHANGED <<abortRef, sessionIdRef, startTimeRef, timers, nextId, now>>

\* reader.read() yields done: forced flush, final metrics, finally
readDone(s) ==
  /\ streams[s].pc = "read"
  /\ messages' = flushTokens(s, TRUE, streams[s].tokenBuffer)
  /\ streams' = [streams EXCEPT ![s] = [afterFlush(s, TRUE, streams[s].tokenBuffer) EXCEPT !.pc = "done"]]
  /\ metrics' = IF isBound(s)
                THEN Metrics(retrievalMsRef, Max({0, now - startTimeRef - retrievalMsRef}))
                ELSE metrics
  /\ isLoading' = finallyLoading(s)
  /\ lastOp' = Op("stream", s, "end", <<>>)
  /\ UNCHANGED <<chunks, error, abortRef, sessionIdRef,
                 startTimeRef, retrievalMsRef, timers, nextId, now>>

\* Every step that takes effect is counted, and the runs explored are those
\* of at most MaxSteps steps.  loaded remembers the arguments of a
\* loadState until the next send, reload or reset changes the conversation.
Step(effect) == IF effect THEN steps < MaxSteps /\ steps' = steps + 1 ELSE UNCHANGED steps

\* time passes
Tick ==
  \E ms \in {ThrottleMs, TickMs} :
  /\ now + ms <= MaxNow
  /\ now' = now + ms
  /\ lastOp' = Op("tick", NoStream, "", <<>>)
  /\ UNCHANGED <<messages, chunks, metrics, isLoading, error, abortRef, sessionIdRef,
                 startTimeRef, retrievalMsRef, streams, timers, nextId, loaded, decoder, mapper,
                 activeSessionId, sessions>>
  /\ Step(TRUE)

\* ------------------------------------------------------------------- next
Send ==
  \E content \in Contents, sessionId \in SessionIds :
    /\ Step(sendGuard(content, isLoading))
    /\ send(content, sessionId)
    /\ loaded' = IF sendGuard(content, isLoading) THEN <<>> ELSE loaded
    /\ UNCHANGED <<decoder, mapper, activeSessionId, sessions>>

LoadState ==
  \E k \in 1..Len(Loadable) :
    /\ Step(TRUE)
    /\ loadState(Loadable[k][1], Loadable[k][2], Loadable[k][3])
    /\ loaded' = <<Loadable[k]>>
    /\ UNCHANGED <<decoder, mapper, activeSessionId, sessions>>

Reset == Step(TRUE) /\ reset /\ loaded' = <<>> /\ UNCHANGED <<decoder, mapper, activeSessionId, sessions>>

Reload ==
  \E sessionId \in SessionIds :
    /\ Step(UserIndexes # {})
    /\ reload(sessionId)
    /\ loaded' = IF UserIndexes = {} THEN loaded ELSE <<>>
    /\ UNCHANGED <<decoder, mapper, activeSessionId, sessions>>

ReloadTimer ==
  /\ reloadTimer
  /\ loaded' = IF sendGuard(Head(timers).content, Head(timers).isLoading) THEN <<>> ELSE loaded
  /\ Step(TRUE)
  /\ UNCHANGED <<decoder, mapper, activeSessionId, sessions>>

FetchResolve == \E s \in 1..Len(streams) : fetchResolve(s) /\ Step(TRUE) /\ UNCHANGED loaded /\ UNCHANGED <<decoder, mapper, activeSessionId, sessions>>

FetchFail ==
  \E s \in 1..Len(streams), message \in FetchFailures :
    fetchFail(s, message) /\ Step(TRUE) /\ UNCHANGED loaded /\ UNCHANGED <<decoder, mapper, activeSessionId, sessions>>

AbortError == \E s \in 1..Len(streams) : abortError(s) /\ Step(TRUE) /\ UNCHANGED loaded /\ UNCHANGED <<decoder, mapper, activeSessionId, sessions>>

ReadFail ==
  \E s \in 1..Len(streams) : readFail(s, <<"network error">>) /\ Step(TRUE) /\ UNCHANGED loaded /\ UNCHANGED <<decoder, mapper, activeSessionId, sessions>>

ReadChunk ==
  \E s \in 1..Len(streams), line \in Lines :
    readChunk(s, line) /\ Step(TRUE) /\ UNCHANGED loaded /\ UNCHANGED <<decoder, mapper, activeSessionId, sessions>>

ReadDone == \E s \in 1..Len(streams) : readDone(s) /\ Step(TRUE) /\ UNCHANGED loaded /\ UNCHANGED <<decoder, mapper, activeSessionId, sessions>>

Next ==
  \/ Send
  \/ LoadState
  \/ Reset
  \/ Reload
  \/ ReloadTimer
  \/ FetchResolve
  \/ FetchFail
  \/ AbortError
  \/ ReadFail
  \/ ReadChunk
  \/ ReadDone
  \/ Tick

Spec == Init /\ [][Next]_vars

\* ------------------------------------------------------------- liveness
\* The transport ends a stream: the signalled abort surfaces, the request
\* is rejected, or the body comes to its end.
Terminate ==
  /\ \E s \in 1..Len(streams) :
       /\ InFlight(s)
       /\ IF streams[s].aborted THEN abortError(s)
          ELSE IF streams[s].pc = "fetch" THEN fetchFail(s, <<"Failed to fetch">>)
          ELSE readDone(s)
  /\ UNCHANGED <<steps, loaded, decoder, mapper, activeSessionId, sessions>>

\* The calls that start, supersede and unbind streams, the resolution of
\* requests, and the endings.
LiveNext ==
  \/ Send
  \/ LoadState
  \/ Reset
  \/ FetchResolve
  \/ Terminate

\* Every stream in flight is ended by the transport sooner or later.
LiveSpec == Init /\ [][LiveNext]_vars /\ WF_vars(Terminate)

\* ---------------------------------------------------------- line decoder
NonBlank(l) == ~IsBlank(l)

\* lines.pop() without the carry: the partial line is thrown away
popLineDropsPartial(lines) == <<>>

\* buffer = lines.pop() || ''
popLine(lines) == lines[Len(lines)]

\* buffer += decoder.decode(value); lines = buffer.split('\n');
\* buffer = lines.pop(); lines.forEach((l) => l.trim() && processLine(l))
decodeChunk(value) ==
  LET lines == Split(decoder.buffer \o value, "NL") IN
  decoder' = [decoder EXCEPT
                !.rest = SubSeq(@, Len(value) + 1, Len(@)),
                !.buffer = popLine(lines),
                !.lines = @ \o SelectSeq(SubSeq(lines, 1, Len(lines) - 1), NonBlank)]

\* done: if (buffer.trim()) processLine(buffer)
decodeEnd ==
  decoder' = [decoder EXCEPT
                !.buffer = <<>>,
                !.lines = IF NonBlank(decoder.buffer) THEN Append(@, decoder.buffer) ELSE @,
                !.pc = "done"]

DecoderIdle ==
  UNCHANGED <<messages, chunks, metrics, isLoading, error, abortRef, sessionIdRef,
              startTimeRef, retrievalMsRef, streams, timers, nextId, now, steps,
              loaded, lastOp, mapper, activeSessionId, sessions>>

\* reader.read() yields the next bytes of the text, cut anywhere
DecodeChunk ==
  /\ decoder.pc = "read"
  /\ \E k \in 1..Len(decoder.rest) : decodeChunk(SubSeq(decoder.rest, 1, k))
  /\ DecoderIdle

\* reader.read() yields done once the text has arrived
DecodeEnd ==
  /\ decoder.pc = "read"
  /\ decoder.rest = <<>>
  /\ decodeEnd
  /\ DecoderIdle

DecoderInit ==
  /\ messages = <<>>
  /\ chunks = <<>>
  /\ metrics = NoMetrics
  /\ isLoading = FALSE
  /\ error = Null
  /\ abortRef = NoStream
  /\ sessionIdRef = Null
  /\ startTimeRef = 0
  /\ retrievalMsRef = 0
  /\ streams = <<>>
  /\ timers = <<>>
  /\ nextId = 1
  /\ now = 0
  /\ steps = 0
  /\ loaded = <<>>
  /\ lastOp = Op("init", NoStream, "", <<>>)
  /\ \E text \in Texts : decoder = Decoder(text, "read")
  /\ mapper = Mapper(<<>>, 0, "idle")
  /\ activeSessionId = Null
  /\ sessions = NoSessions

DecoderNext == DecodeChunk \/ DecodeEnd

DecoderSpec == DecoderInit /\ [][DecoderNext]_vars

\* --------------------------------------------------------------- mapping
\* mapSources and the rounding of retrieval_time, applied to one frame
MapSources ==
  /\ mapper.pc = "frame"
  /\ mapper' = [mapper EXCEPT !.chunks = mapSources(mapper.sources),
                              !.ms = RoundMs(mapper.retrieval_time),
                              !.pc = "mapped"]
  /\ UNCHANGED <<messages, chunks, metrics, isLoading, error, abortRef, sessionIdRef,
                 startTimeRef, retrievalMsRef, streams, timers, nextId, now, steps,
                 loaded, lastOp, decoder, activeSessionId, sessions>>

MapperInit ==
  /\ messages = <<>>
  /\ chunks = <<>>
  /\ metrics = NoMetrics
  /\ isLoading = FALSE
  /\ error = Null
  /\ abortRef = NoStream
  /\ sessionIdRef = Null
  /\ startTimeRef = 0
  /\ retrievalMsRef = 0
  /\ streams = <<>>
  /\ timers = <<>>
  /\ nextId = 1
  /\ now = 0
  /\ steps = 0
  /\ loaded = <<>>
  /\ lastOp = Op("init", NoStream, "", <<>>)
  /\ decoder = Decoder(<<>>, "idle")
  /\ activeSessionId = Null
  /\ sessions = NoSessions
  /\ \E sources \in SourceLists, retrieval_time \in RetrievalTimes :
       mapper = Mapper(sources, retrieval_time, "frame")

MapperNext == MapSources

MapperSpec == MapperInit /\ [][MapperNext]_vars

\* ------------------------------------------------------------------ page
\* The page Home: useChat wired to useChatHistory.  Every handler and every
\* stream event ends with the auto-save effect of the render it causes.
PageIds == SessionIds \cup {"C", "D"}

\* storage.generateSessionId(): an id that no session and no stream has had
Unused(id) ==
  /\ id # activeSessionId
  /\ id \notin DOMAIN sessions
  /\ \A s \in 1..Len(streams) : streams[s].boundSessionId # id
generateSessionId == CHOOSE id \in PageIds : Unused(id)

\* storage.saveSession and storage.deleteSession
saveSession(store, id, m, c, met) ==
  [x \in DOMAIN store \cup {id} |->
     IF x = id THEN [messages |-> m, chunks |-> c, metrics |-> met] ELSE store[x]]
deleteSession(store, id) == [x \in DOMAIN store \ {id} |-> store[x]]

\* useEffect(() => { if (messages.length > 0 && activeSessionId)
\* saveSession(activeSessionId, messages, chunks, metrics) }, [...]): runs
\* after a render in which one of the four has changed
autoSave(store) ==
  sessions' =
    IF /\ <<messages', chunks', metrics', activeSessionId'>>
            # <<messages, chunks, metrics, activeSessionId>>
       /\ Len(messages') > 0
       /\ activeSessionId' # Null
    THEN saveSession(store, activeSessionId', messages', chunks', metrics')
    ELSE store

\* What the page leaves alone
PageFrame == UNCHANGED <<loaded, decoder, mapper>>

handleSend ==
  \E content \in Contents :
    /\ activeSessionId # Null
    /\ Step(sendGuard(content, isLoading))
    /\ send(content, activeSessionId)
    /\ UNCHANGED activeSessionId
    /\ autoSave(sessions)
    /\ PageFrame

\* loadSession(id), then loadState with what it returned
handleSelectSession ==
  \E id \in PageIds :
    /\ Step(TRUE)
    /\ IF id \in DOMAIN sessions
       THEN /\ activeSessionId' = id
            /\ loadState(sessions[id].messages, sessions[id].chunks, sessions[id].metrics)
       ELSE /\ UNCHANGED activeSessionId
            /\ loadState(<<>>, <<>>, NoMetrics)
    /\ autoSave(sessions)
    /\ PageFrame

\* reset(), createSession(), setActiveSessionId(newId)
handleNewChat ==
  /\ \E id \in PageIds : Unused(id)
  /\ Step(TRUE)
  /\ reset
  /\ activeSessionId' = generateSessionId
  /\ autoSave(sessions)
  /\ PageFrame

\* deleteSession(id); for the active session also reset and createSession
handleDeleteSession ==
  \E id \in DOMAIN sessions :
    /\ Step(TRUE)
    /\ IF id = activeSessionId
       THEN /\ \E fresh \in PageIds : Unused(fresh)
            /\ reset
            /\ activeSessionId' = generateSessionId
       ELSE /\ lastOp' = Op("delete", NoStream, "", <<>>)
            /\ UNCHANGED <<messages, chunks, metrics, isLoading, error, abortRef,
                           sessionIdRef, startTimeRef, retrievalMsRef, streams, timers,
                           nextId, now, activeSessionId>>
    /\ autoSave(deleteSession(sessions, id))
    /\ PageFrame

\* The lines the response carries on the page: content and citations.
PageLines == {ContentLine, DataLine}

\* An event of a stream, and the render it causes
StreamEvent ==
  \E s \in 1..Len(streams) :
    /\ \/ fetchResolve(s)
       \/ \E line \in PageLines : readChunk(s, line)
       \/ readDone(s)
       \/ abortError(s)
    /\ Step(TRUE)
    /\ UNCHANGED activeSessionId
    /\ autoSave(sessions)
    /\ PageFrame

\* The page after mount: one session saved earlier, and the new session
\* that the initializing effect has created.
PageInit ==
  /\ messages = <<>>
  /\ chunks = <<>>
  /\ metrics = NoMetrics
  /\ isLoading = FALSE
  /\ error = Null
  /\ abortRef = NoStream
  /\ sessionIdRef = Null
  /\ startTimeRef = 0
  /\ retrievalMsRef = 0
  /\ streams = <<>>
  /\ timers = <<>>
  /\ nextId = 1
  /\ now = 0
  /\ steps = 0
  /\ loaded = <<>>
  /\ lastOp = Op("init", NoStream, "", <<>>)
  /\ decoder = Decoder(<<>>, "idle")
  /\ mapper = Mapper(<<>>, 0, "idle")
  /\ activeSessionId = "A"
  /\ sessions = saveSession(NoSessions, "B", SavedMessages, SavedChunks, SavedMetrics)

PageNext ==
  handleSend \/ handleSelectSession \/ handleNewChat \/ handleDeleteSession \/ StreamEvent

PageSpec == PageInit /\ [][PageNext]_vars

\* ================================================================ claims
actsOf(s) == lastOp'.op = "stream" /\ lastOp'.s = s

\* C1: an event of a stream whose session id is not the one currently
\* bound (after reset, or after a later send bound to another id) changes
\* none of messages, citations, metrics, error, isLoading.
SessionBinding ==
  [][\A s \in 1..Len(streams) :
       (actsOf(s) /\ sessionIdRef # streams[s].boundSessionId)
         => UNCHANGED <<messages, chunks, metrics, error, isLoading>>]_vars

\* A citations frame of a stream bound to one session arrived while the
\* controller was bound to another session.
UnboundEventDropped ==
  /\ lastOp.op = "stream"
  /\ lastOp.ev = "2"
  /\ sessionIdRef # Null
  /\ sessionIdRef # streams[lastOp.s].boundSessionId

\* C2: after loadState(m, c, met), and until the next send, reload or
\* reset, the snapshot stays m, c, met with error and isLoading cleared,
\* whatever the stream that was in flight still delivers.
LoadStateAtomic ==
  loaded # <<>> =>
    /\ messages = loaded[1][1]
    /\ chunks = loaded[1][2]
    /\ metrics = loaded[1][3]
    /\ error = Null
    /\ isLoading = FALSE

\* C3: once a later send has started its stream, no event of an earlier
\* stream changes the state.
OnlyLatestStreamMutates ==
  [][\A s \in 1..Len(streams) :
       (actsOf(s) /\ s < Len(streams))
         => UNCHANGED <<messages, chunks, metrics, error, isLoading>>]_vars

\* C4: at most one stream in flight is bound, that is, able to change the
\* state.
AtMostOneBound ==
  Cardinality({s \in 1..Len(streams) : InFlight(s) /\ isBound(s)}) <= 1

\* C5: the snapshot read right after loadState(m, c, met) is m, c, met with
\* isLoading false and error null, whatever the state before.
LoadStateRoundTrip ==
  lastOp.op = "loadState" =>
    /\ loaded # <<>>
    /\ messages = loaded[1][1]
    /\ chunks = loaded[1][2]
    /\ metrics = loaded[1][3]
    /\ isLoading = FALSE
    /\ error = Null

\* A saved conversation was loaded while a stream was in flight.
LoadedWhileStreaming ==
  /\ lastOp.op = "loadState"
  /\ messages = SavedMessages
  /\ \E s \in 1..Len(streams) : InFlight(s)

\* C6: reset leaves the empty state with no bound session and every
\* stream in flight signalled to abort; a reset right after a reset changes
\* nothing.
ResetClears ==
  [][lastOp'.op = "reset" =>
       /\ messages' = <<>>
       /\ chunks' = <<>>
       /\ metrics' = NoMetrics
       /\ error' = Null
       /\ isLoading' = FALSE
       /\ sessionIdRef' = Null
       /\ \A s \in 1..Len(streams') : streams'[s].pc # "done" => streams'[s].aborted
       /\ lastOp.op = "reset" =>
            UNCHANGED <<messages, chunks, metrics, error, isLoading,
                        sessionIdRef, abortRef, streams>>]_vars

\* reset was called while a stream was in flight.
ResetWhileStreaming ==
  /\ lastOp.op = "reset"
  /\ \E s \in 1..Len(streams) : InFlight(s) /\ streams[s].aborted

SendAppendsPair ==
  [][(lastOp'.op \in {"send", "timer"} /\ lastOp'.s # NoStream) =>
       LET n == Len(messages) IN
       /\ Len(messages') = n + 2
       /\ SubSeq(messages', 1, n) = messages
       /\ messages'[n + 1].role = "user"
       /\ messages'[n + 1].content = lastOp'.content
       /\ messages'[n + 2].role = "assistant"
       /\ messages'[n + 2].content = <<>>
       /\ messages'[n + 2].id = streams'[lastOp'.s].assistantId
       /\ streams'[lastOp'.s].pc = "fetch"]_vars

\* A send took effect on a log that already held messages.
SendAppended ==
  /\ lastOp.op = "send"
  /\ lastOp.s # NoStream
  /\ Len(messages) > 2

\* C9: when the deferred re-send of reload runs on the truncated log, the
\* log becomes that prefix followed by one user message with the reloaded
\* content and one empty assistant message.
ReloadRegenerates ==
  [][(lastOp'.op = "timer" /\ timers # <<>> /\ messages = Head(timers).prefix) =>
       LET t == Head(timers)
           n == Len(t.prefix)
       IN
       /\ Len(messages') = n + 2
       /\ SubSeq(messages', 1, n) = t.prefix
       /\ messages'[n + 1].role = "user"
       /\ messages'[n + 1].content = t.content
       /\ messages'[n + 2].role = "assistant"]_vars

\* The text that follows the marker, trimmed.
TextAfterMarker(data) ==
  Trim(SubSeq(data, IndexOf(data, "Error:**") + 1, Len(data)))

\* C10: a type 0 line carrying the error marker, read by a bound stream,
\* sets error to the sanitized text after the marker, leaves every message
\* and the pending buffer as they were, ends the turn, and no line of a
\* stream is processed after the stream has ended.
MaskedErrorFailsTurn ==
  [][/\ \A s \in 1..Len(streams) :
          (actsOf(s) /\ lastOp'.ev = "0" /\ Includes(lastOp'.content, "Error:**")
             /\ sessionIdRef = streams[s].boundSessionId)
            => /\ error' = getFriendlyErrorMessage(TextAfterMarker(lastOp'.content))
               /\ messages' = messages
               /\ isLoading' = FALSE
               /\ streams'[s].pc = "done"
               /\ streams'[s].tokenBuffer = streams[s].tokenBuffer
     /\ lastOp'.op = "stream" /\ lastOp'.s <= Len(streams)
          => streams[lastOp'.s].pc # "done"]_vars

\* A masked error arrived after content had been committed to the
\* placeholder: the error is shown and the content is kept.
MaskedErrorSurfaced ==
  /\ lastOp.op = "stream"
  /\ lastOp.ev = "0"
  /\ Includes(lastOp.content, "Error:**")
  /\ error = "Too many requests. Please wait a moment and try again."
  /\ \E i \in 1..Len(messages) :
       /\ messages[i].id = streams[lastOp.s].assistantId
       /\ messages[i].content = <<"Hello">>

\* The failure a step of a stream reports: a rejected request, a response
\* that is not ok or has no body, a failed read, an exception thrown while
\* a line is processed, a masked error line.
Failed(ev, content) ==
  \/ ev \in {"fetchFail", "readFail", "typeError"}
  \/ ev = "0" /\ Includes(content, "Error:**")

FailureText(ev, content) ==
  IF ev = "0" THEN TextAfterMarker(content) ELSE content

\* C11: the step in which the abort of a stream surfaces leaves error as it
\* was, whichever of send, loadState and reset signalled the abort.
CancellationSilent ==
  [][\A s \in 1..Len(streams) :
       (actsOf(s) /\ lastOp'.ev = "abort") => error' = error]_vars

\* The abort signalled by loadState surfaced in a stream that was still
\* bound, so that a failure of any other kind would have been shown.
AbortSurfacedWhileBound ==
  /\ lastOp.op = "stream"
  /\ lastOp.ev = "abort"
  /\ sessionIdRef = streams[lastOp.s].boundSessionId
  /\ loaded # <<>>
  /\ error = Null

\* C12: a failure of a stream that is not a cancellation ends that stream in
\* the same step, with error set to the sanitized failure text and
\* isLoading cleared when the stream is bound; a stream that has ended takes
\* no further step, and error is set by no other kind of step.
FailureSurfacedOnce ==
  [][/\ \A s \in 1..Len(streams) :
          (actsOf(s) /\ Failed(lastOp'.ev, lastOp'.content)) =>
            /\ streams[s].pc # "done"
            /\ streams'[s].pc = "done"
            /\ isBound(s) =>
                 /\ error' = getFriendlyErrorMessage(FailureText(lastOp'.ev, lastOp'.content))
                 /\ isLoading' = FALSE
     /\ (error' # error /\ error' # Null) =>
          /\ lastOp'.op = "stream"
          /\ Failed(lastOp'.ev, lastOp'.content)
     /\ (lastOp'.op = "stream" /\ lastOp'.s <= Len(streams)) =>
          streams[lastOp'.s].pc \in {"fetch", "read"}]_vars

\* A read failed after the request had resolved, and the failure is shown.
ReadFailureSurfaced ==
  /\ lastOp.op = "stream"
  /\ lastOp.ev = "readFail"
  /\ error = getFriendlyErrorMessage(<<"network error">>)
  /\ error # Null
  /\ ~isLoading

\* C13: error is null right after a send that takes effect, a reset and a
\* loadState, and no step of a stream sets error once a later stream has
\* been started.
ErrorClearedByNewTurn ==
  [][/\ (lastOp'.op \in {"send", "timer"} /\ lastOp'.s # NoStream) => error' = Null
     /\ lastOp'.op \in {"reset", "loadState"} => error' = Null
     /\ \A s \in 1..Len(streams) :
          (actsOf(s) /\ s < Len(streams)) => error' = error]_vars

\* C14: however the response text is cut into chunks, the lines handed to
\* processLine so far, followed by the non-blank lines of what is carried
\* and still to arrive, are the non-blank lines of the whole text; at the
\* end the lines handed over are exactly those of the whole text.
DecodedLines(text) == SelectSeq(Split(text, "NL"), NonBlank)

ChunkBoundaryIndependence ==
  /\ decoder.pc = "read" =>
        decoder.lines \o DecodedLines(decoder.buffer \o decoder.rest)
          = DecodedLines(decoder.text)
  /\ decoder.pc = "done" => decoder.lines = DecodedLines(decoder.text)

\* A line was handed over and the start of the next line is carried while
\* the rest of that line has not arrived.
PartialLineCarried ==
  /\ decoder.pc = "read"
  /\ decoder.lines # <<>>
  /\ NonBlank(decoder.buffer)
  /\ decoder.rest # <<>>
  /\ Head(decoder.rest) = "a"

\* C15: a line without a colon, and a line whose payload does not parse,
\* change nothing but the count of lines read: no message, citation,
\* metric, error or loading flag, and the stream goes on reading with the
\* same pending buffer.
MalformedLineDropped ==
  [][\A s \in 1..Len(streams), line \in {NoColonLine, BadJsonLine} :
       readChunk(s, line) =>
         /\ UNCHANGED <<messages, chunks, metrics, isLoading, error, retrievalMsRef>>
         /\ streams' = [streams EXCEPT ![s].nread = @ + 1]
         /\ streams'[s].pc = "read"]_vars

\* A malformed line was read by a bound stream with text pending, and the
\* stream is still reading.
MalformedLineSkipped ==
  /\ lastOp.op = "stream"
  /\ lastOp.ev = "dropped"
  /\ sessionIdRef = streams[lastOp.s].boundSessionId
  /\ streams[lastOp.s].pc = "read"
  /\ streams[lastOp.s].tokenBuffer # <<>>
  /\ error = Null

\* C16: when a stream that is bound ends, in whatever way, nothing is left
\* in its pending buffer: every delta it buffered has been committed.
NoBufferedTextLost ==
  [][\A s \in 1..Len(streams) :
       (actsOf(s) /\ streams'[s].pc = "done" /\ isBound(s))
         => streams'[s].tokenBuffer = <<>>]_vars

FinalMetricsOfTurn ==
  [][\A s \in 1..Len(streams) :
       (actsOf(s) /\ lastOp'.ev = "end" /\ isBound(s)) =>
         metrics' = Metrics(streams[s].reported,
                            Max({0, now - streams[s].startTime - streams[s].reported}))]_vars

\* C19: a type 2 line with a citation list, read by a bound stream, makes
\* citations the mapping of exactly that list.
CitationsReplaced ==
  [][\A s \in 1..Len(streams), line \in {DataLine, ArrayLine, EmptySourcesLine} :
       (readChunk(s, line) /\ isBound(s))
         => chunks' = mapSources(SourcesOf(JSONobject(line[3])))]_vars

\* C20: at most one stream in flight has not been signalled to abort; a
\* send that takes effect leaves every earlier stream signalled, and
\* loadState and reset leave every stream signalled.
SingleLiveStream ==
  [][/\ Cardinality({s \in 1..Len(streams') : streams'[s].pc # "done" /\ ~streams'[s].aborted}) <= 1
     /\ (lastOp'.op \in {"send", "timer"} /\ lastOp'.s # NoStream) =>
          /\ \A s \in 1..Len(streams) : streams'[s].aborted
          /\ ~streams'[lastOp'.s].aborted
     /\ lastOp'.op \in {"loadState", "reset"} =>
          \A s \in 1..Len(streams') : streams'[s].aborted]_vars

\* A send for another session found a stream in flight (the page had loaded
\* another conversation) and signalled it before opening its own.
EarlierStreamSignalled ==
  /\ lastOp.op = "send"
  /\ lastOp.s = 2
  /\ streams[1].pc # "done"
  /\ streams[1].aborted
  /\ streams[1].boundSessionId # streams[2].boundSessionId
  /\ ~streams[2].aborted

\* C21: under a transport that ends every stream, isLoading never stays
\* true forever, whatever loadState, reset and further sends do meanwhile.
LoadingEnds == isLoading ~> ~isLoading

\* The stream of a second send, made after loadState had interrupted the
\* first, ran to its normal end and the controller is idle again.
IdleAfterCompletion ==
  /\ lastOp.op = "stream"
  /\ lastOp.ev = "end"
  /\ lastOp.s = 2
  /\ ~isLoading
  /\ \A s \in 1..Len(streams) : ~InFlight(s)

\* The concatenation of the reasoning segments of a message.
RECURSIVE Concat(_)
Concat(segments) ==
  IF segments = <<>> THEN <<>> ELSE Head(segments) \o Concat(Tail(segments))

Markers == {"__REASONING__", "__END__", "\""}

OnlyPlaceholderChanges ==
  [][\A s \in 1..Len(streams) :
       actsOf(s) =>
         /\ Len(messages') = Len(messages)
         /\ \A i \in 1..Len(messages) :
              \/ messages'[i] = messages[i]
              \/ /\ messages[i].id = streams[s].assistantId
                 /\ messages[i].role = "assistant"
                 /\ messages'[i].id = messages[i].id
                 /\ messages'[i].role = messages[i].role]_vars

\* A stream wrote to its placeholder at the end of a log that already held
\* an earlier exchange.
PlaceholderWrittenAfterEarlierTurn ==
  /\ lastOp.op = "stream"
  /\ lastOp.ev \in {"0", "end"}
  /\ Len(messages) = 4
  /\ messages[2].role = "assistant"
  /\ messages[4].id = streams[lastOp.s].assistantId
  /\ messages[4].content = <<"Hello">>

\* A delta was put in the buffer of the bound stream s, whose placeholder
\* is in the log, and flushTokens treated it as the gate says for an
\* interval that is due or not.
GateStep(s, due) ==
  (/\ actsOf(s)
   /\ isBound(s)
   /\ \E i \in 1..Len(messages) : messages[i].id = streams[s].assistantId
   /\ lastOp'.ev \in {"0", "2"}
   /\ lastOp'.content # <<>>
   /\ streams'[s].pc = "read")
    => IF due
       THEN messages' # messages /\ streams'[s].tokenBuffer = <<>>
       ELSE messages' = messages
            /\ Len(streams'[s].tokenBuffer) > Len(streams[s].tokenBuffer)

\* C24: a delta that arrives when at least ThrottleMs have passed since the
\* last flush of its stream commits and empties the whole buffer; one that
\* arrives earlier leaves the log alone and stays in the buffer.
ThrottleGate ==
  [][\A s \in 1..Len(streams) :
       GateStep(s, now - streams[s].lastUpdateTime >= ThrottleMs)]_vars

\* The same gate with an interval of more than ThrottleMs.
ThrottleGateStrict ==
  [][\A s \in 1..Len(streams) :
       GateStep(s, now - streams[s].lastUpdateTime > ThrottleMs)]_vars

\* C25: every source record maps to one citation, in order: kind pdf for
\* a path ending in .pdf, docx for .docx or .doc, web otherwise; relevance
\* the score times 100 rounded to the nearest integer, 0 without a score;
\* title the last path segment, or "Unknown" when it is empty.  A retrieval
\* time in seconds gives the nearest number of milliseconds.
CitationMapping ==
  mapper.pc = "mapped" =>
    /\ Len(mapper.chunks) = Len(mapper.sources)
    /\ \A i \in 1..Len(mapper.sources) :
         LET src == mapper.sources[i]
             c == mapper.chunks[i]
             last == src.file_path[Len(src.file_path)]
         IN
         /\ c.type = "pdf" <=> last \in {"b.pdf"}
         /\ c.type = "docx" <=> last \in {"c.docx", "d.doc"}
         /\ c.type = "web" <=> last \in {"d", "e.PDF", ""}
         /\ IF src.score = NoScore THEN c.relevance = 0
            ELSE 10 * c.relevance - 5 <= src.score /\ src.score < 10 * c.relevance + 5
         /\ c.title = IF last = "" THEN "Unknown" ELSE last
         /\ c.snippet = src.text
         /\ c.sourceUrl = src.file_path
    /\ 1000 * mapper.ms - 500 <= mapper.retrieval_time
    /\ mapper.retrieval_time < 1000 * mapper.ms + 500

\* A list of a .doc path with score 0.005 and a path with an empty last
\* segment without score was mapped, with a retrieval time of 0.1004 s.
DocAndUnknownMapped ==
  /\ mapper.pc = "mapped"
  /\ Len(mapper.chunks) = 2
  /\ mapper.sources[1].file_path = <<"a", "d.doc">>
  /\ mapper.sources[1].score = 5
  /\ mapper.chunks[1].relevance = 1
  /\ mapper.chunks[2].title = "Unknown"
  /\ mapper.sources[2].score = NoScore
  /\ mapper.ms = 100

\* C26: the termination of an earlier stream (completion, failure or late
\* abort) never sets isLoading to false while a later stream started for
\* the same session id is still in flight.
LoadingHeldForLatest ==
  [][\A s \in 1..Len(streams) :
       (/\ actsOf(s)
        /\ streams'[s].pc = "done"
        /\ \E t \in (s + 1)..Len(streams) :
             /\ InFlight(t)
             /\ streams[t].boundSessionId = streams[s].boundSessionId)
         => (isLoading => isLoading')]_vars

\* C27: once reload and its deferred re-send have run, the log is either
\* what it was when reload was called, or it ends with a user message that
\* carries the content of the previously last user message, followed by an
\* assistant message.
ReloadKeepsQuestion ==
  [][(lastOp'.op = "timer" /\ timers # <<>>) =>
       LET t == Head(timers)
           n == Len(messages')
       IN
       \/ messages' = t.messages
       \/ /\ n >= 2
          /\ messages'[n - 1].role = "user"
          /\ messages'[n - 1].content = t.content
          /\ messages'[n].role = "assistant"]_vars

\* The request of the stream started by this step carries the log as it
\* stood just before the step, followed by the new user message.
BodyIsLogAndQuestion ==
  LET s == Len(streams')
      n == Len(streams'[s].body)
  IN
  /\ n = Len(messages) + 1
  /\ SubSeq(streams'[s].body, 1, n - 1) = RoleContent(messages)
  /\ streams'[s].body[n] = [role |-> "user", content |-> lastOp'.content]

\* C28: the request body of every send is the log as it stood just before
\* the send, followed by the new user message, role and content only; the
\* request issued by reload carries the truncated log and the question.
RequestCarriesLog ==
  [][(lastOp'.op \in {"send", "timer"} /\ Len(streams') > Len(streams))
       => BodyIsLogAndQuestion]_vars

\* The same for the sends that the page calls directly.
DirectRequestCarriesLog ==
  [][(lastOp'.op = "send" /\ Len(streams') > Len(streams))
       => BodyIsLogAndQuestion]_vars

\* C29: a line read from the response that is not a type 0 line with the
\* masked-error marker leaves error as it was and leaves the stream
\* reading, whatever its type tag and the shape of its payload.
OnlyMaskedErrorFails ==
  [][\A s \in 1..Len(streams) :
       (/\ actsOf(s)
        /\ streams'[s].nread > streams[s].nread
        /\ ~(lastOp'.ev = "0" /\ isMaskedError(lastOp'.content)))
         => error' = error /\ streams'[s].pc = "read"]_vars

\* The same for every line but a type 2 line whose payload has no
\* properties.
OnlyMaskedErrorOrNullFails ==
  [][\A s \in 1..Len(streams) :
       (/\ actsOf(s)
        /\ streams'[s].nread > streams[s].nread
        /\ lastOp'.ev # "typeError"
        /\ ~(lastOp'.ev = "0" /\ isMaskedError(lastOp'.content)))
         => error' = error /\ streams'[s].pc = "read"]_vars

\* C30: an event of a stream that is bound to a session id other than the
\* active one changes nothing of what is saved: neither the session that
\* has become active by selection, by a new chat or by deletion, nor any
\* other stored session receives its data.
NoCrossChatSave ==
  [][\A s \in 1..Len(streams) :
       (actsOf(s) /\ streams[s].boundSessionId # activeSessionId)
         => sessions' = sessions]_vars

\* The same when the stream was left behind by a new chat or by deleting
\* the active session, or by a send in the session selected since.
NoCrossChatSaveOnceUnbound ==
  [][\A s \in 1..Len(streams) :
       (actsOf(s) /\ streams[s].boundSessionId # activeSessionId
          /\ sessionIdRef # streams[s].boundSessionId)
         => sessions' = sessions]_vars

====
